---- MODULE Spec2Model ----
(***************************************************************************)
(* Model of wsic.readers.MultiProcessTileIterator (src/wsic/readers.py):   *)
(* the coordinator's fields, the multiprocessing queue, the get_tile       *)
(* worker processes and the intermediate array, with pixel content.        *)
(*                                                                         *)
(* Arrays are functions over 0-based index ranges, as in numpy:            *)
(* a[r][c] for r \in 0..rows-1, c \in 0..cols-1.  The channel axis is      *)
(* folded into one sample value per pixel (0 = every channel zero).        *)
(* Tile sizes are (width, height) tuples: Python size[0] is size[1] here   *)
(* and Python size[1] is size[2] (TLA+ tuples are 1-based).                *)
(***************************************************************************)
EXTENDS Integers, Sequences, FiniteSets, TLC

\* ---------------------------------------------------------------- bounds
MaxDim == 3
MaxTile == 2
MaxWorkers == 2
\* largest frame area H * W, in pixels
MaxArea == 4

VARIABLES
    src,               \* pixel content behind reader[...] (reader.shape = shape)
    shape,             \* self.shape = <<H, W>>
    read_tile_size,    \* self.read_tile_size = <<width, height>>
    yield_tile_size,   \* self.yield_tile_size = <<width, height>>
    num_workers_arg,   \* the num_workers argument of __init__: None or <<n>>
    cpu_count,         \* what os.cpu_count() returns: None or <<n>>
    num_workers,       \* self.num_workers
    read_tiles_shape,  \* self.read_tiles_shape = <<rows, cols>>
    yield_tile_shape,  \* self.yield_tile_shape = <<rows, cols>>
    intermediate,      \* self.intermediate: None or a shape-sized array
    queue,             \* self.queue: FIFO of <<ji, tile>> put by workers
    enqueued,          \* self.enqueued
    reordering_dict,   \* self.reordering_dict: ji -> tile
    remaining_reads,   \* self.remaining_reads
    read_j, read_i,    \* read cursor
    yield_j, yield_i,  \* yield cursor
    procs,             \* get_tile processes started and still alive
    published,         \* those of procs that have returned from queue.put
    crashed,           \* get_tile processes that raised before queue.put
    pc,                \* where the consumer is: see PcValues
    yielded            \* history: the tiles __next__ has returned, in order

vars == <<src, shape, read_tile_size, yield_tile_size, num_workers_arg, cpu_count,
          num_workers,
          read_tiles_shape, yield_tile_shape, intermediate, queue, enqueued,
          reordering_dict, remaining_reads, read_j, read_i, yield_j, yield_i,
          procs, published, crashed, pc, yielded>>

config == <<src, shape, read_tile_size, yield_tile_size, num_workers_arg, cpu_count,
            num_workers,
            read_tiles_shape, yield_tile_shape>>

\* Python None (and any falsy value), as the empty function
None == <<>>

\* "ready": constructed, no __next__ call in progress, none made yet
\* "loop": inside __next__, at the top of the while True loop
\* "returned": the last __next__ call returned a tile
\* "StopIteration", "KeyError": the last __next__ call raised this
\* "ValueError": __init__ raised, no iterator exists
\* "abandoned": the consumer has dropped the iterator and calls nothing more
\* "iterated": the last call on the iterator was __iter__, and it has returned
PcValues == {"ready", "loop", "returned", "StopIteration", "KeyError", "ValueError",
             "abandoned", "iterated"}

\* ------------------------------------------------------ numpy-like helpers
Min(a, b) == IF a < b THEN a ELSE b

\* int(np.ceil(a / b)) for a >= 0, b >= 1
CeilDiv_Floor(a, b) == a \div b

CeilDiv(a, b) == (a + b - 1) \div b

\* arr.shape[0], arr.shape[1] of a non-empty 2-D array
Rows(arr) == Cardinality(DOMAIN arr)
Cols(arr) == Cardinality(DOMAIN arr[0])

\* arr[r0:r1, c0:c1] with Python's clipping of slice bounds to the array
Slice2D(arr, r0, r1, c0, c1) ==
    LET a0 == Min(r0, Rows(arr))
        a1 == Min(r1, Rows(arr))
        b0 == Min(c0, Cols(arr))
        b1 == Min(c1, Cols(arr))
    IN [r \in 0 .. (a1 - a0 - 1) |-> [c \in 0 .. (b1 - b0 - 1) |-> arr[a0 + r][b0 + c]]]

\* arr[r0:r0+tile.shape[0], c0:c0+tile.shape[1]] = tile
Assign2D(arr, r0, c0, tile) ==
    [r \in DOMAIN arr |->
        [c \in DOMAIN arr[r] |->
            IF /\ r >= r0 /\ r < r0 + Rows(tile)
               /\ c >= c0 /\ c < c0 + Cols(tile)
            THEN tile[r - r0][c - c0]
            ELSE arr[r][c]]]

\* np.count_nonzero(tile)
CountNonzero(tile) ==
    Cardinality({rc \in (DOMAIN tile) \X (DOMAIN tile[0]) : tile[rc[1]][rc[2]] # 0})

\* the intermediate store handed to __init__: a zero-filled array of the frame's shape
NewIntermediate(H, W) == [r \in 0 .. (H - 1) |-> [c \in 0 .. (W - 1) |-> 0]]

\* list(np.ndindex((rows, cols))): row-major sequence of <<j, i>>
NdIndex(rc) ==
    [k \in 1 .. (rc[1] * rc[2]) |-> <<(k - 1) \div rc[2], (k - 1) % rc[2]>>]

\* -------------------------------------------------------------- get_tile
\* reader[index] of get_tile: the window of tile ji for tilesize (width, height)
GetTile_SwappedAxes(ji, tilesize) ==
    Slice2D(src, ji[1] * tilesize[1], (ji[1] + 1) * tilesize[1],
                 ji[2] * tilesize[2], (ji[2] + 1) * tilesize[2])

GetTile(ji, tilesize) ==
    Slice2D(src, ji[1] * tilesize[2], (ji[1] + 1) * tilesize[2],
                 ji[2] * tilesize[1], (ji[2] + 1) * tilesize[1])

\* ------------------------------------------------------------- __init__
\* yield_tile_size or read_tile_size
YieldTileSizeOrDefault(yield_arg, read_arg) ==
    IF yield_arg = None THEN read_arg ELSE yield_arg

\* num_workers or os.cpu_count() or 2, for optional integers None or <<n>>
\* (None and 0 are falsy)
Falsy(opt) == opt = None \/ opt[1] = 0

EffectiveWorkers_NoFallback(nwarg, cpu) ==
    IF ~Falsy(nwarg) THEN nwarg[1] ELSE IF cpu # None THEN cpu[1] ELSE 0

EffectiveWorkers(nwarg, cpu) ==
    IF ~Falsy(nwarg) THEN nwarg[1] ELSE IF ~Falsy(cpu) THEN cpu[1] ELSE 2

\* the validation of __init__: read_tile_size != yield_tile_size and not intermediate
ConfigInvalid_Unchecked(rts, yts, inter) == FALSE

ConfigInvalid(rts, yts, inter) == rts # yts /\ inter = None

\* (ceil(H / tile height), ceil(W / tile width))
TilesShape(shp, tilesize) ==
    <<CeilDiv(shp[1], tilesize[2]), CeilDiv(shp[2], tilesize[1])>>

\* ------------------------------------------------------------ fill_queue
\* the loop condition of fill_queue
CanDispatch_OffByOne(enq, rem) == Cardinality(enq) <= num_workers /\ Len(rem) > 0

CanDispatch(enq, rem) == Cardinality(enq) < num_workers /\ Len(rem) > 0

\* fill_queue as a function of (enqueued, remaining_reads, procs): each turn pops
\* the head of remaining_reads, starts a process for it and adds it to enqueued
RECURSIVE FillQueue_PopLast(_, _, _)
FillQueue_PopLast(enq, rem, prc) ==
    IF CanDispatch(enq, rem)
    THEN FillQueue_PopLast(enq \cup {rem[Len(rem)]}, SubSeq(rem, 1, Len(rem) - 1),
                           prc \cup {rem[Len(rem)]})
    ELSE [enq |-> enq, rem |-> rem, prc |-> prc]

RECURSIVE FillQueue(_, _, _)
FillQueue(enq, rem, prc) ==
    IF CanDispatch(enq, rem)
    THEN FillQueue(enq \cup {Head(rem)}, Tail(rem), prc \cup {Head(rem)})
    ELSE [enq |-> enq, rem |-> rem, prc |-> prc]

\* ----------------------------------------------------------- empty_queue
\* empty_queue: every queued <<ji, tile>> is stored in the dict, in queue order
RECURSIVE EmptyQueue(_, _)
EmptyQueue(q, d) ==
    IF q = <<>> THEN d
    ELSE EmptyQueue(Tail(q),
                    [k \in DOMAIN d \cup {Head(q)[1]} |->
                        IF k = Head(q)[1] THEN Head(q)[2] ELSE d[k]])

\* --------------------------------------------------------------- __next__
\* the key looked up in, and popped from, reordering_dict
ReadCursor_FirstArrived ==
    IF queue # <<>> THEN queue[1][1] ELSE <<read_j, read_i>>

ReadCursor == <<read_j, read_i>>

\* reordering_dict.pop(key)
DictPop_KeepsEntry(d, key) == d

DictPop(d, key) == [k \in DOMAIN d \ {key} |-> d[k]]

\* self.intermediate[intermediate_write_index] = tile
IntermediateWrite_YieldStride(inter, rj, ri, tile) ==
    Assign2D(inter, rj * yield_tile_size[2], ri * yield_tile_size[1], tile)

IntermediateWrite(inter, rj, ri, tile) ==
    Assign2D(inter, rj * read_tile_size[2], ri * read_tile_size[1], tile)

\* self.intermediate[intermediate_read_index]
IntermediateRead(inter, yj, yi) ==
    Slice2D(inter, yj * yield_tile_size[2], (yj + 1) * yield_tile_size[2],
                   yi * yield_tile_size[1], (yi + 1) * yield_tile_size[1])

\* __len__: int(np.prod(self.yield_tile_shape))
IterLen == yield_tile_shape[1] * yield_tile_shape[2]

\* whether __next__, entered with the yield cursor at (yj, yi), raises
\* StopIteration: the cursor is wrapped to the next row first (lines 178-182)
Exhausted_OnlyWhenWrapping(yj, yi) ==
    yi >= yield_tile_shape[2] /\ yj + 1 >= yield_tile_shape[1]

Exhausted(yj, yi) ==
    (IF yi >= yield_tile_shape[2] THEN yj + 1 ELSE yj) >= yield_tile_shape[1]

\* np.count_nonzero(tile) > 0 always true
WindowReady_Always(tile) == TRUE

\* the test that lets __next__ return the window read from the intermediate
WindowReady(tile) == CountNonzero(tile) > 0

\* ------------------------------------------------------------------ inputs
TileSizes == (1 .. MaxTile) \X (1 .. MaxTile)

\* source images of shape (H, W): every pixel carries its own non-zero value,
\* except the pixels of black, which are 0
Image(H, W, black) ==
    [r \in 0 .. (H - 1) |-> [c \in 0 .. (W - 1) |->
        IF <<r, c>> \in black THEN 0 ELSE r * W + c + 1]]

\* no black pixel, or the first pixel black, or the whole last row black
SourceImages(H, W) ==
    {Image(H, W, black) : black \in {{}, {<<0, 0>>}, {H - 1} \X (0 .. (W - 1))}}

\* ------------------------------------------------------------------- Init
\* MultiProcessTileIterator(reader, read_tile_size, yarg, nwarg, inter) for a
\* reader of the H x W image, on a machine where os.cpu_count() is cpu
Construct(H, W, image, rts, yarg, nwarg, cpu, inter) ==
    LET yts == YieldTileSizeOrDefault(yarg, rts)
    IN /\ src = image
       /\ shape = <<H, W>>
       /\ read_tile_size = rts
       /\ yield_tile_size = yts
       /\ intermediate = inter
       /\ queue = <<>>
       /\ enqueued = {}
       /\ reordering_dict = <<>>
       /\ read_j = 0
       /\ read_i = 0
       /\ yield_i = 0
       /\ yield_j = 0
       /\ num_workers_arg = nwarg
       /\ cpu_count = cpu
       /\ num_workers = EffectiveWorkers(nwarg, cpu)
       /\ read_tiles_shape = TilesShape(<<H, W>>, rts)
       /\ yield_tile_shape = TilesShape(<<H, W>>, yts)
       /\ remaining_reads = NdIndex(TilesShape(<<H, W>>, rts))
       /\ procs = {}
       /\ published = {}
       /\ crashed = {}
       /\ yielded = <<>>
       /\ pc = IF ConfigInvalid(rts, yts, inter) THEN "ValueError" ELSE "ready"

\* The state after construction with num_workers given, and the iter() call
\* of the consumer's for loop (which resets the read cursor to the (0, 0) it
\* has).  os.cpu_count() is not consulted.
Init ==
    \E H \in 1 .. MaxDim, W \in 1 .. MaxDim, rts \in TileSizes,
       yarg \in TileSizes \cup {None}, nw \in 1 .. MaxWorkers,
       withInter \in BOOLEAN :
      \E image \in SourceImages(H, W) :
        /\ H * W <= MaxArea
        /\ Construct(H, W, image, rts, yarg, <<nw>>, None,
                     IF withInter THEN NewIntermediate(H, W) ELSE None)

\* ---------------------------------------------------------------- actions
\* __next__ from its entry to the top of the while loop (lines 170-185)
NextEnter ==
    /\ pc \in {"ready", "returned", "StopIteration", "iterated"}
    /\ LET wrapR == read_i >= read_tiles_shape[2]
           wrapY == yield_i >= yield_tile_shape[2]
           yj == IF wrapY THEN yield_j + 1 ELSE yield_j
       IN /\ read_i' = IF wrapR THEN 0 ELSE read_i
          /\ read_j' = IF wrapR THEN read_j + 1 ELSE read_j
          /\ yield_i' = IF wrapY THEN 0 ELSE yield_i
          /\ yield_j' = yj
          /\ IF Exhausted(yield_j, yield_i)
             THEN /\ pc' = "StopIteration"
                  /\ UNCHANGED <<enqueued, remaining_reads, procs>>
             ELSE LET f == FillQueue(enqueued, remaining_reads, procs)
                  IN /\ pc' = "loop"
                     /\ enqueued' = f.enq
                     /\ remaining_reads' = f.rem
                     /\ procs' = f.prc
    /\ UNCHANGED <<config, intermediate, queue, reordering_dict, published, crashed,
                   yielded>>

\* one turn of the while True loop of __next__ (lines 188-238): it returns a
\* tile, raises, or tops the queue up and sleeps before the next turn
NextLoop ==
    /\ pc = "loop"
    /\ LET d1 == EmptyQueue(queue, reordering_dict)
           key == ReadCursor
           has == key \in DOMAIN d1
       IN /\ queue' = <<>>
          /\ IF has /\ key \notin enqueued
             THEN \* self.enqueued.remove(key) raises KeyError
                  /\ pc' = "KeyError"
                  /\ reordering_dict' = d1
                  /\ UNCHANGED <<enqueued, remaining_reads, procs, intermediate,
                                 read_i, yield_i, yielded>>
             ELSE IF has /\ intermediate = None
             THEN /\ enqueued' = enqueued \ {key}
                  /\ reordering_dict' = DictPop(d1, key)
                  /\ read_i' = read_i + 1
                  /\ yield_i' = yield_i + 1
                  /\ yielded' = Append(yielded, [ji |-> key, tile |-> d1[key]])
                  /\ pc' = "returned"
                  /\ UNCHANGED <<remaining_reads, procs, intermediate>>
             ELSE LET enq1 == IF has THEN enqueued \ {key} ELSE enqueued
                      d2 == IF has THEN DictPop(d1, key) ELSE d1
                      inter1 == IF has
                                THEN IntermediateWrite(intermediate, read_j, read_i, d1[key])
                                ELSE intermediate
                      ri1 == IF has THEN read_i + 1 ELSE read_i
                      window == IntermediateRead(inter1, yield_j, yield_i)
                  IN /\ reordering_dict' = d2
                     /\ intermediate' = inter1
                     /\ read_i' = ri1
                     /\ IF intermediate # None /\ WindowReady(window)
                        THEN /\ yield_i' = yield_i + 1
                             /\ yielded' = Append(yielded,
                                    [ji |-> <<yield_j, yield_i>>, tile |-> window])
                             /\ pc' = "returned"
                             /\ enqueued' = enq1
                             /\ UNCHANGED <<remaining_reads, procs>>
                        ELSE LET f == FillQueue(enq1, remaining_reads, procs)
                             IN /\ pc' = "loop"
                                /\ enqueued' = f.enq
                                /\ remaining_reads' = f.rem
                                /\ procs' = f.prc
                                /\ UNCHANGED <<yield_i, yielded>>
    /\ UNCHANGED <<config, read_j, yield_j, published, crashed>>

\* a get_tile process reads its tile and puts (ji, tile) on the queue
\* (line 84): the result is visible to the coordinator, the process is still
\* alive
GetTilePut(ji) ==
    /\ ji \in procs \ published
    /\ published' = published \cup {ji}
    /\ queue' = Append(queue, <<ji, GetTile(ji, read_tile_size)>>)
    /\ UNCHANGED <<config, intermediate, enqueued, reordering_dict, remaining_reads,
                   read_j, read_i, yield_j, yield_i, procs, crashed, pc, yielded>>

\* a get_tile process that has returned from queue.put ends.  It ends once
\* its result has left the process: at any time after the put when the result
\* fits the queue's pipe, and only after the coordinator has read it when it
\* does not.  Both are outcomes of the same code, for small and large tiles.
GetTileExit(ji) ==
    /\ ji \in published
    /\ procs' = procs \ {ji}
    /\ published' = published \ {ji}
    /\ UNCHANGED <<config, intermediate, queue, enqueued, reordering_dict,
                   remaining_reads, read_j, read_i, yield_j, yield_i, crashed, pc,
                   yielded>>

\* a get_tile process raises in reader[index]: it ends without putting anything
GetTileRaise(ji) ==
    /\ ji \in procs \ published
    /\ procs' = procs \ {ji}
    /\ crashed' = crashed \cup {ji}
    /\ UNCHANGED <<config, intermediate, queue, enqueued, reordering_dict,
                   remaining_reads, read_j, read_i, yield_j, yield_i, published, pc,
                   yielded>>

\* the coordinates of the results waiting on the queue
QueuedKeys == {queue[k][1] : k \in 1 .. Len(queue)}

\* the end of a process whose result the coordinator has read: nothing holds
\* it back, whatever the size of the result
GetTileExitAfterRead(ji) == GetTileExit(ji) /\ ji \notin QueuedKeys

Coords == (0 .. MaxDim) \X (0 .. MaxDim)

Workers == \E ji \in Coords : GetTilePut(ji) \/ GetTileExit(ji)

Next == NextEnter \/ NextLoop \/ Workers

\* every fetch succeeds
Spec == Init /\ [][Next]_vars

\* fetches may fail
NextWithFailures == Next \/ (\E ji \in Coords : GetTileRaise(ji))

SpecWithFailures == Init /\ [][NextWithFailures]_vars

\* the consumer keeps calling __next__, the loop keeps turning (its sleep is
\* bounded), every started process publishes its result, and a process whose
\* result has been read ends
FairSpec ==
    /\ Spec
    /\ WF_vars(NextEnter)
    /\ WF_vars(NextLoop)
    /\ \A ji \in Coords : WF_vars(GetTilePut(ji))
    /\ \A ji \in Coords : WF_vars(GetTileExitAfterRead(ji))

\* the consumer stops iterating (break out of the for loop, or dropping the
\* iterator): no method of the iterator runs, and the class defines no
\* __del__, close or context manager that would
Abandon ==
    /\ pc \in {"ready", "returned"}
    /\ pc' = "abandoned"
    /\ UNCHANGED <<config, intermediate, queue, enqueued, reordering_dict,
                   remaining_reads, read_j, read_i, yield_j, yield_i, procs,
                   published, crashed, yielded>>

NextOrAbandon == Next \/ Abandon

\* the consumer may stop early; the loop keeps turning while a call is in
\* progress, every started process publishes its result, and a process whose
\* result has been read ends
AbandonSpec ==
    /\ Init /\ [][NextOrAbandon]_vars
    /\ WF_vars(NextLoop)
    /\ \A ji \in Coords : WF_vars(GetTilePut(ji))
    /\ \A ji \in Coords : WF_vars(GetTileExitAfterRead(ji))

\* ------------------------------------------------- default worker count
MaxCpu == 3

\* The state after construction without a num_workers argument (None), for
\* every os.cpu_count() from 1 to MaxCpu and for an unknown one (None), with
\* read tile size = yield tile size = (1, 1) and no intermediate.
InitDefaultWorkers ==
    \E H \in 1 .. MaxDim, W \in 1 .. MaxDim,
       cpu \in {None} \cup {<<n>> : n \in 1 .. MaxCpu} :
        /\ H * W <= MaxArea
        /\ Construct(H, W, Image(H, W, {}), <<1, 1>>, None, None, cpu, None)

DefaultWorkersSpec == InitDefaultWorkers /\ [][Next]_vars

\* ------------------------------------------------------------- __iter__
\* the read cursor (read_j, read_i) that __iter__ assigns (lines 163-164)
IterReset_KeepsCursor == <<read_j, read_i>>

IterReset == <<0, 0>>

\* iter(it), called between two calls of __next__ (or before the first, or
\* after StopIteration): it assigns the read cursor and nothing else
Iter ==
    /\ pc \in {"ready", "returned", "StopIteration", "iterated"}
    /\ read_j' = IterReset[1]
    /\ read_i' = IterReset[2]
    /\ pc' = "iterated"
    /\ UNCHANGED <<config, intermediate, queue, enqueued, reordering_dict,
                   remaining_reads, yield_j, yield_i, procs, published, crashed,
                   yielded>>

NextOrIter == Next \/ Iter

\* The state after construction as in Init, for the source image without a
\* black pixel (__iter__ does not look at pixel content).
InitIter ==
    \E H \in 1 .. MaxDim, W \in 1 .. MaxDim, rts \in TileSizes,
       yarg \in TileSizes \cup {None}, nw \in 1 .. MaxWorkers,
       withInter \in BOOLEAN :
        /\ H * W <= MaxArea
        /\ Construct(H, W, Image(H, W, {}), rts, yarg, <<nw>>, None,
                     IF withInter THEN NewIntermediate(H, W) ELSE None)

\* a consumer that may call iter(it) again at any point between __next__ calls
IterSpec == InitIter /\ [][NextOrIter]_vars

\* ==================================================================== claims
\* what the claims are stated with (not part of the program)

\* the processes whose fetch is still in progress: alive, nothing published yet
Fetching == procs \ published

\* the k-th coordinate (k = 1, 2, ...) of the row-major enumeration of a grid
RowMajor(k, grid) == <<(k - 1) \div grid[2], (k - 1) % grid[2]>>

\* the source pixels of the frame-clipped window of coordinate ji for tiles of
\* size ts = (width, height): rows [j*tileH, min((j+1)*tileH, H)), columns
\* [i*tileW, min((i+1)*tileW, W))
ClippedWindow(ji, ts) ==
    LET r0 == ji[1] * ts[2]
        r1 == Min((ji[1] + 1) * ts[2], shape[1])
        c0 == ji[2] * ts[1]
        c1 == Min((ji[2] + 1) * ts[1], shape[2])
    IN [r \in 0 .. (r1 - r0 - 1) |-> [c \in 0 .. (c1 - c0 - 1) |-> src[r0 + r][c0 + c]]]

\* the frame rebuilt from the yielded tiles, taken as the yield grid in row-major order
Reassembled ==
    [r \in 0 .. (shape[1] - 1) |-> [c \in 0 .. (shape[2] - 1) |->
        yielded[(r \div yield_tile_size[2]) * yield_tile_shape[2]
                + (c \div yield_tile_size[1]) + 1]
            .tile[r % yield_tile_size[2]][c % yield_tile_size[1]]]]

AllNonzero(arr) == \A r \in DOMAIN arr : \A c \in DOMAIN arr[r] : arr[r][c] # 0

\* C1: the k-th tile returned is the tile of the k-th coordinate of the yield
\* grid in row-major order, whatever the order in which fetches complete, and
\* StopIteration is raised only after exactly __len__() tiles were returned.
C1_RowMajorOrder ==
    /\ \A k \in 1 .. Len(yielded) : yielded[k].ji = RowMajor(k, yield_tile_shape)
    /\ Len(yielded) <= yield_tile_shape[1] * yield_tile_shape[2]
    /\ pc = "StopIteration" =>
          /\ Len(yielded) = IterLen
          /\ IterLen = yield_tile_shape[1] * yield_tile_shape[2]

\* C1 witness: a tile was returned, and a later tile has arrived in the
\* reordering dict while the fetch of the read cursor's tile is still running
C1_Witness ==
    /\ Len(yielded) >= 1
    /\ pc = "loop"
    /\ ReadCursor \in Fetching
    /\ reordering_dict # <<>>
    /\ ReadCursor \notin DOMAIN reordering_dict

\* C2: without an intermediate, every returned tile equals the source pixels
\* of the frame-clipped window of its row-major coordinate, and at exhaustion
\* the tiles reassemble to the source.
C2_TilesEqualSource ==
    (intermediate = None /\ pc # "ValueError") =>
        /\ read_tile_size = yield_tile_size
        /\ \A k \in 1 .. Len(yielded) :
              yielded[k].tile = ClippedWindow(RowMajor(k, yield_tile_shape), yield_tile_size)
        /\ pc = "StopIteration" => Reassembled = src

\* C2 witness: a 1x3 frame cut into 2-wide, 1-high tiles (not a multiple in
\* width) was iterated to exhaustion without an intermediate
C2_Witness ==
    /\ intermediate = None
    /\ pc = "StopIteration"
    /\ shape = <<1, 3>>
    /\ yield_tile_size = <<2, 1>>
    /\ Len(yielded) = 2

\* the read-grid coordinates whose tile overlaps the yield window of coordinate yc
OverlappingReads(yc) ==
    {rc \in DOMAIN reordering_dict \cup enqueued \cup
            {NdIndex(read_tiles_shape)[k] : k \in 1 .. (read_tiles_shape[1] * read_tiles_shape[2])} :
        /\ rc[1] * read_tile_size[2] < Min((yc[1] + 1) * yield_tile_size[2], shape[1])
        /\ yc[1] * yield_tile_size[2] < Min((rc[1] + 1) * read_tile_size[2], shape[1])
        /\ rc[2] * read_tile_size[1] < Min((yc[2] + 1) * yield_tile_size[1], shape[2])
        /\ yc[2] * yield_tile_size[1] < Min((rc[2] + 1) * read_tile_size[1], shape[2])}

\* the read tile rc has been taken at the read cursor (and so written to the
\* intermediate when there is one): the cursor is past it in row-major order
Consumed(rc) ==
    rc[1] * read_tiles_shape[2] + rc[2] < read_j * read_tiles_shape[2] + read_i

\* C3: with an intermediate, __next__ returns the window at the yield cursor
\* only after every read tile overlapping that window has been written to the
\* store (stated of the tile just returned; the source has no zero sample).
C3_WindowFullyWritten ==
    (pc = "returned" /\ intermediate # None /\ AllNonzero(src)) =>
        /\ \A rc \in OverlappingReads(yielded[Len(yielded)].ji) : Consumed(rc)
        /\ AllNonzero(yielded[Len(yielded)].tile)

\* C10: when __next__ raises StopIteration every read-grid coordinate has been
\* dispatched and consumed, enqueued and reordering_dict are empty, nothing is
\* left on the queue and no get_tile process is running.
C10_TornDownAtExhaustion ==
    pc = "StopIteration" =>
        /\ remaining_reads = <<>>
        /\ enqueued = {}
        /\ reordering_dict = <<>>
        /\ queue = <<>>
        /\ procs = {}
        /\ read_j * read_tiles_shape[2] + read_i
              >= read_tiles_shape[1] * read_tiles_shape[2]

\* C4: when every fetch completes and no source sample is zero, every call of
\* __next__ that has entered its wait loop eventually returns a tile or raises
\* StopIteration (checked under FairSpec).
C4_NextTerminates ==
    (pc = "loop" /\ AllNonzero(src)) ~> (pc \in {"returned", "StopIteration"})

\* C5: once a get_tile process has raised, the next turn of the loop (the next
\* drain of the queue) raises a fatal error out of __next__: the step is never
\* a plain return or a further wait (checked under SpecWithFailures).
C5_FailureSurfaces ==
    [][(crashed # {} /\ NextLoop) => pc' \notin {"loop", "returned", "StopIteration"}]_vars

\* C6: enqueued never holds more than num_workers coordinates, and therefore
\* at most num_workers get_tile processes are alive at once.
C6_PendingBounded ==
    /\ Cardinality(enqueued) <= num_workers
    /\ Cardinality(procs) <= num_workers

\* C7 as claimed: no coordinate is at once in enqueued and in reordering_dict.
C7_PendingMapDisjoint == enqueued \cap DOMAIN reordering_dict = {}

\* C7 amended: a coordinate whose fetch is running or whose result waits on
\* the queue is not in reordering_dict; every coordinate of reordering_dict is
\* still in enqueued, which it leaves only when its tile is taken at the read
\* cursor; a taken coordinate is in neither.
C7_MapWithinPending ==
    /\ (Fetching \cup QueuedKeys) \cap DOMAIN reordering_dict = {}
    /\ DOMAIN reordering_dict \subseteq enqueued
    /\ \A rc \in enqueued \cup DOMAIN reordering_dict : ~Consumed(rc)

\* C7 witness: a tile was taken at the read cursor and a drained tile waits in
\* reordering_dict while its coordinate is still in enqueued
C7_Witness ==
    /\ Len(yielded) >= 1
    /\ \E rc \in DOMAIN reordering_dict : rc \in enqueued

\* C8: read tile size # yield tile size without an intermediate always ends
\* construction with ValueError, with no process started and no tile to be
\* had; equal sizes, or an intermediate, never do.
C8_ConfigValidation ==
    /\ (read_tile_size # yield_tile_size /\ intermediate = None) =>
          /\ pc = "ValueError"
          /\ procs = {} /\ crashed = {} /\ enqueued = {}
          /\ queue = <<>> /\ yielded = <<>>
    /\ (read_tile_size = yield_tile_size \/ intermediate # None) => pc # "ValueError"

\* C8 witness: construction was refused for read (1, 1), yield (2, 2), no intermediate
C8_Witness ==
    /\ pc = "ValueError"
    /\ read_tile_size = <<1, 1>>
    /\ yield_tile_size = <<2, 2>>
    /\ intermediate = None

\* C9: with an intermediate and a read tile size that is a multiple of the
\* yield tile size in width and in height, every returned tile equals the
\* source pixels of the frame-clipped window of its yield-grid coordinate.
C9_RetiledEqualSource ==
    (/\ intermediate # None
     /\ read_tile_size[1] % yield_tile_size[1] = 0
     /\ read_tile_size[2] % yield_tile_size[2] = 0) =>
        \A k \in 1 .. Len(yielded) :
            yielded[k].tile = ClippedWindow(RowMajor(k, yield_tile_shape), yield_tile_size)

\* C9 witness: a 3x1 frame read in tiles 2 high (not a multiple in height) was
\* yielded to exhaustion in 1x1 tiles through the intermediate
C9_Witness ==
    /\ intermediate # None
    /\ shape = <<3, 1>>
    /\ read_tile_size = <<1, 2>>
    /\ yield_tile_size = <<1, 1>>
    /\ pc = "StopIteration"
    /\ Len(yielded) = 3


\* C11: after the consumer abandons the iteration, eventually no get_tile
\* process is outstanding and no published result is left unread on the queue
\* (checked under AbandonSpec).
C11_AbandonReleasesWorkers ==
    (pc = "abandoned") ~> (procs = {} /\ queue = <<>>)


\* C12 as claimed: with no num_workers argument the effective worker count is
\* the CPU count but never less than 2 (checked under DefaultWorkersSpec).
C12_DefaultAtLeastTwo ==
    num_workers_arg = None =>
        /\ num_workers >= 2
        /\ (cpu_count # None /\ cpu_count[1] >= 2) => num_workers = cpu_count[1]

\* C12 amended: with no num_workers argument the effective worker count is
\* the CPU count when it is known, 1 included, and 2 only when it is unknown.
C12_DefaultIsCpuCountOrTwo ==
    num_workers_arg = None =>
        /\ cpu_count # None => num_workers = cpu_count[1]
        /\ cpu_count = None => num_workers = 2
        /\ num_workers >= 1
        /\ Cardinality(Fetching) <= num_workers

\* C12 witness: on a one-CPU machine an iterator built without num_workers
\* runs a single fetch at a time, with reads left to dispatch
C12_Witness ==
    /\ num_workers_arg = None
    /\ cpu_count = <<1>>
    /\ num_workers = 1
    /\ Cardinality(Fetching) = 1
    /\ remaining_reads # <<>>
    /\ Len(yielded) >= 1


\* C13: the read grid and the yield grid computed at construction satisfy
\* rows*tileH >= H > (rows-1)*tileH and cols*tileW >= W > (cols-1)*tileW,
\* for tile sizes given as (width, height).
C13_GridCoversFrame ==
    \A g \in {<<read_tiles_shape, read_tile_size>>, <<yield_tile_shape, yield_tile_size>>} :
        /\ g[1][1] * g[2][2] >= shape[1]
        /\ (g[1][1] - 1) * g[2][2] < shape[1]
        /\ g[1][2] * g[2][1] >= shape[2]
        /\ (g[1][2] - 1) * g[2][1] < shape[2]

\* C13 witness: a 3x1 frame with read tiles 1 wide and 2 high (2x1 read grid,
\* not a multiple in height), yielded to exhaustion in tiles 2 wide and 1 high
\* (3x1 grid, wider than the frame)
C13_Witness ==
    /\ shape = <<3, 1>>
    /\ read_tile_size = <<1, 2>>
    /\ read_tiles_shape = <<2, 1>>
    /\ yield_tile_size = <<2, 1>>
    /\ yield_tile_shape = <<3, 1>>
    /\ pc = "StopIteration"

\* the read-grid coordinates, and the position of one in row-major order
ReadGrid == (0 .. (read_tiles_shape[1] - 1)) \X (0 .. (read_tiles_shape[2] - 1))

RowMajorIndex(rc) == rc[1] * read_tiles_shape[2] + rc[2]

SeqRange(q) == {q[k] : k \in 1 .. Len(q)}

\* C14: fill_queue dispatches read-grid coordinates in row-major order, each
\* at most once, and only while enqueued holds fewer than num_workers; in
\* every state each read-grid coordinate is in exactly one of remaining_reads
\* (not yet dispatched), enqueued (pending) or consumed.
C14_DispatchOrderAndPartition ==
    /\ [](/\ \A k \in 1 .. Len(remaining_reads) :
                remaining_reads[k] =
                    RowMajor(read_tiles_shape[1] * read_tiles_shape[2]
                             - Len(remaining_reads) + k, read_tiles_shape)
          /\ \A rc \in ReadGrid :
                /\ rc \in SeqRange(remaining_reads) \/ rc \in enqueued \/ Consumed(rc)
                /\ ~(rc \in SeqRange(remaining_reads) /\ rc \in enqueued)
                /\ ~(rc \in SeqRange(remaining_reads) /\ Consumed(rc))
                /\ ~(rc \in enqueued /\ Consumed(rc))
          /\ enqueued \subseteq ReadGrid)
    /\ [][remaining_reads' # remaining_reads =>
            /\ Len(remaining_reads') < Len(remaining_reads)
            /\ remaining_reads' = SubSeq(remaining_reads,
                   Len(remaining_reads) - Len(remaining_reads') + 1, Len(remaining_reads))
            /\ LET started == {remaining_reads[k] :
                                  k \in 1 .. (Len(remaining_reads) - Len(remaining_reads'))}
               IN /\ started \cap enqueued = {}
                  /\ started \subseteq enqueued'
                  /\ started \subseteq procs'
                  /\ procs' \ procs = started
                  /\ Cardinality(enqueued') <= num_workers]_vars

\* C14 witness: with two workers on a 2x2 read grid, (0, 0) is consumed,
\* (0, 1) and (1, 0) are pending and (1, 1) is not yet dispatched
C14_Witness ==
    /\ read_tiles_shape = <<2, 2>>
    /\ num_workers = 2
    /\ Consumed(<<0, 0>>)
    /\ enqueued = {<<0, 1>>, <<1, 0>>}
    /\ remaining_reads = <<<<1, 1>>>>


\* C15: without an intermediate, a __next__ that returns removes exactly the
\* read cursor's tile from reordering_dict (after the drain) and advances the
\* read cursor and the yield cursor together, so the two cursors denote the
\* same coordinate at every return (and in every state).
C15_CursorsAdvanceTogether ==
    /\ [](intermediate = None => (read_j = yield_j /\ read_i = yield_i))
    /\ [][(intermediate = None /\ pc = "loop" /\ pc' = "returned") =>
            /\ read_i' = read_i + 1 /\ yield_i' = yield_i + 1
            /\ read_j' = read_j /\ yield_j' = yield_j
            /\ <<read_j, read_i>> \in DOMAIN reordering_dict \cup QueuedKeys
            /\ DOMAIN reordering_dict' =
                  (DOMAIN reordering_dict \cup QueuedKeys) \ {<<read_j, read_i>>}
            /\ \A rc \in DOMAIN reordering_dict' :
                  reordering_dict'[rc] = ClippedWindow(rc, read_tile_size)
            /\ yielded'[Len(yielded')].ji = <<read_j, read_i>>]_vars

\* C15 witness: without an intermediate the second tile has just been
\* returned while a later tile stays in reordering_dict
C15_Witness ==
    /\ intermediate = None
    /\ pc = "returned"
    /\ Len(yielded) = 2
    /\ reordering_dict # <<>>
    /\ <<read_j, read_i>> = <<yield_j, yield_i>>

\* the frame pixels of read tile rc: rows [j*readH, j*readH + tile height),
\* columns [i*readW, i*readW + tile width), the tile being frame-clipped
ReadRegion(rc) ==
    {p \in (0 .. (shape[1] - 1)) \X (0 .. (shape[2] - 1)) :
        /\ p[1] \div read_tile_size[2] = rc[1]
        /\ p[2] \div read_tile_size[1] = rc[2]}

\* C16: with an intermediate, taking the read tile at the read cursor writes
\* it into the store at its own region, which lies inside the frame and is
\* disjoint from every other read tile's, and changes nothing outside it; the
\* write advances the read cursor by one and the yield cursor moves in that
\* turn only if the turn also returns a window; the tiles written are always
\* a row-major prefix of the read grid, each holding its source pixels.
C16_IntermediateWrite ==
    /\ [](intermediate # None =>
            \A rc \in ReadGrid : \A p \in ReadRegion(rc) :
                intermediate[p[1]][p[2]] =
                    IF Consumed(rc) THEN src[p[1]][p[2]] ELSE 0)
    /\ [][(intermediate # None /\ read_i' # read_i /\ pc = "loop") =>
            /\ read_i' = read_i + 1 /\ read_j' = read_j
            /\ <<read_j, read_i>> \in ReadGrid
            /\ \A p \in ReadRegion(<<read_j, read_i>>) :
                  /\ intermediate[p[1]][p[2]] = 0
                  /\ intermediate'[p[1]][p[2]] = src[p[1]][p[2]]
            /\ \A rc \in ReadGrid \ {<<read_j, read_i>>} : \A p \in ReadRegion(rc) :
                  /\ p \notin ReadRegion(<<read_j, read_i>>)
                  /\ intermediate'[p[1]][p[2]] = intermediate[p[1]][p[2]]
            /\ yield_j' = yield_j
            /\ pc' = "loop" => yield_i' = yield_i
            /\ pc' = "returned" => yield_i' = yield_i + 1]_vars

\* C16 witness: on a 1x3 frame read in tiles 2 wide the edge-clipped read tile
\* (0, 1) has been written after (0, 0), each into its own columns
C16_Witness ==
    /\ intermediate # None
    /\ shape = <<1, 3>>
    /\ read_tile_size = <<2, 1>>
    /\ read_j = 0 /\ read_i = 2
    /\ intermediate[0][0] = src[0][0] /\ intermediate[0][1] = src[0][1]
    /\ intermediate[0][2] = src[0][2]
    /\ AllNonzero(src)


\* C17: once __next__ has raised StopIteration, every later call raises it
\* again: no step returns a tile or dispatches a fetch, and the yield cursor,
\* enqueued and reordering_dict stay as they are.
C17_ExhaustionIsSticky ==
    [][pc = "StopIteration" =>
          /\ pc' = "StopIteration"
          /\ yielded' = yielded
          /\ remaining_reads' = remaining_reads
          /\ procs' \subseteq procs
          /\ yield_j' = yield_j /\ yield_i' = yield_i
          /\ enqueued' = enqueued
          /\ reordering_dict' = reordering_dict]_vars

\* C17 witness: StopIteration was raised after the tiles were returned while
\* a fetch was still running (so that steps do follow the exhaustion)
C17_Witness ==
    /\ pc = "StopIteration"
    /\ Len(yielded) = IterLen
    /\ yield_j = yield_tile_shape[1] /\ yield_i = 0
    /\ Fetching # {}


AllZero(arr) == \A r \in DOMAIN arr : \A c \in DOMAIN arr[r] : arr[r][c] = 0

YieldGrid == (0 .. (yield_tile_shape[1] - 1)) \X (0 .. (yield_tile_shape[2] - 1))

\* the yield cursor is on the grid and the source pixels of its window are all zero
BlackWindowAtCursor ==
    /\ <<yield_j, yield_i>> \in YieldGrid
    /\ AllZero(ClippedWindow(<<yield_j, yield_i>>, yield_tile_size))

\* C18: with an intermediate, a yield window whose source pixels are all zero
\* is never returned: a __next__ waiting for it stays in its loop whatever has
\* been fetched and written, and StopIteration is never reached.
C18_BlackWindowStalls ==
    /\ [](intermediate # None =>
            /\ \A k \in 1 .. Len(yielded) :
                  ~AllZero(ClippedWindow(RowMajor(k, yield_tile_shape), yield_tile_size))
            /\ (\E yc \in YieldGrid : AllZero(ClippedWindow(yc, yield_tile_size)))
                  => pc # "StopIteration")
    /\ [][(intermediate # None /\ pc = "loop" /\ BlackWindowAtCursor) =>
             (pc' = "loop" /\ yield_j' = yield_j /\ yield_i' = yield_i
              /\ yielded' = yielded)]_vars

\* C18 witness: tiles were returned, then every read tile was fetched and
\* written, nothing is in flight, and __next__ still waits on a black window
C18_Witness ==
    /\ intermediate # None
    /\ pc = "loop"
    /\ BlackWindowAtCursor
    /\ Len(yielded) >= 1
    /\ remaining_reads = <<>> /\ enqueued = {} /\ procs = {} /\ queue = <<>>
    /\ \A rc \in ReadGrid : Consumed(rc)


\* C19: every coordinate of reordering_dict is also in enqueued, so
\* enqueued.remove at the read cursor never raises KeyError; a coordinate
\* leaves enqueued only in the loop turn that takes its tile at the read
\* cursor, never when its fetch completes or its result is drained.
C19_MapKeysStayPending ==
    /\ [](/\ DOMAIN reordering_dict \subseteq enqueued
          /\ QueuedKeys \subseteq enqueued
          /\ pc # "KeyError")
    /\ [][\A rc \in enqueued \ enqueued' :
            /\ pc = "loop"
            /\ rc = <<read_j, read_i>>
            /\ rc \in DOMAIN reordering_dict \cup QueuedKeys
            /\ rc \notin DOMAIN reordering_dict'
            /\ read_i' = read_i + 1]_vars

\* C19 witness: a fetch has completed and been drained into reordering_dict
\* ahead of the read cursor's tile; its coordinate is still in enqueued
C19_Witness ==
    /\ pc = "loop"
    /\ Len(yielded) >= 1
    /\ \E rc \in DOMAIN reordering_dict : rc # <<read_j, read_i>> /\ rc \in enqueued
    /\ <<read_j, read_i>> \in Fetching

\* C20 as claimed: running get_tile processes + results waiting on the queue
\* + tiles held in reordering_dict never exceed num_workers.
C20_RunningBufferedBounded ==
    Cardinality(procs) + Len(queue) + Cardinality(DOMAIN reordering_dict) <= num_workers

\* C20 amended: fetches in progress + results waiting on the queue + tiles
\* held in reordering_dict never exceed num_workers, so no fetch is in
\* progress, and none is started, while num_workers completed tiles wait.  A
\* process that has published its result and is still alive does not count:
\* its result does.  (Checked under SpecWithFailures: fetches may also fail.)
C20_BufferedBounded ==
    /\ Cardinality(Fetching) + Len(queue) + Cardinality(DOMAIN reordering_dict)
          <= num_workers
    /\ Len(queue) + Cardinality(DOMAIN reordering_dict) >= num_workers => Fetching = {}

\* C20 witness: with two workers, one completed tile waits in reordering_dict
\* and another on the queue, its process still alive; no fetch is in progress
\* and reads are still left to dispatch
C20_Witness ==
    /\ num_workers = 2
    /\ Cardinality(DOMAIN reordering_dict) = 1
    /\ Len(queue) = 1
    /\ Fetching = {}
    /\ QueuedKeys \subseteq procs
    /\ remaining_reads # <<>>
    /\ Len(yielded) >= 1


\* the read coordinates of the tiles __next__ has returned (no intermediate)
ReturnedKeys == {yielded[k].ji : k \in 1 .. Len(yielded)}

\* rc can still reach the reordering map: it is waiting to be dispatched,
\* being fetched, on the queue or in the map
Obtainable(rc) ==
    \/ rc \in SeqRange(remaining_reads)
    \/ rc \in enqueued \cup Fetching \cup QueuedKeys
    \/ rc \in DOMAIN reordering_dict

\* __iter__ has just returned, without an intermediate, after a tile was returned
IterAfterReturn == pc = "iterated" /\ intermediate = None /\ Len(yielded) >= 1

\* C21: __iter__ sets the read cursor to (0, 0) and leaves the yield cursor,
\* remaining_reads, enqueued and reordering_dict as they are.  Without an
\* intermediate, after __iter__ is called once a tile has been returned, the
\* read cursor denotes a coordinate already returned, that coordinate can
\* never reach the reordering map again, and __next__ never returns another
\* tile; if yield tiles are still outstanding, the next __next__ call never
\* ends at all (it neither returns nor raises).
C21_IterStallsIteration ==
    /\ [][pc' = "iterated" =>
            /\ ReadCursor' = <<0, 0>>
            /\ UNCHANGED <<yield_j, yield_i, remaining_reads, enqueued,
                           reordering_dict>>]_vars
    /\ [](IterAfterReturn =>
            /\ ReadCursor \in ReturnedKeys
            /\ [](/\ ReadCursor = <<0, 0>>
                  /\ ~Obtainable(ReadCursor)
                  /\ pc # "returned"))
    /\ []((IterAfterReturn /\ ~Exhausted(yield_j, yield_i)) =>
            [](pc \in {"iterated", "loop"}))

\* __iter__ was called after two tiles were returned; the next __next__ call
\* waits at read cursor (0, 0) although every read has been fetched and the
\* tiles still to be returned sit in the reordering map
C21_Witness ==
    /\ pc = "loop"
    /\ intermediate = None
    /\ ReadCursor = <<0, 0>>
    /\ Len(yielded) >= 2
    /\ ~Exhausted(yield_j, yield_i)
    /\ remaining_reads = <<>> /\ procs = {} /\ queue = <<>>
    /\ DOMAIN reordering_dict # {}

====
